---- MODULE Spec2Model ----
(***************************************************************************)
(* Yahoo! news tracker (src/main.py): one run of main() downloads the      *)
(* previously published workbook, scrapes each keyword, merges by URL,     *)
(* classifies the unlabeled rows in batches and writes the workbook that   *)
(* the next run downloads again.                                           *)
(*                                                                         *)
(* A DataFrame is a sequence of rows; every row carries its index label    *)
(* (ix) next to the columns.  The columns kept are title, url, sent        *)
(* (the sentiment column) and cat (the category column); the remaining     *)
(* columns are carried along by the code exactly as title is.              *)
(***************************************************************************)
EXTENDS Integers, Sequences, FiniteSets, TLC

\* ---------------------------------------------------------------- bounds
MaxRuns  == 2        \* invocations of main() that are explored
MaxNew   == 3        \* rows one scrape_yahoo call returns at most
MaxItems == 1        \* objects in one parsed classification response
\* rows per classification batch; main.py:429 uses 40, scaled down so that
\* a keyword gets more than one batch within MaxNew
batch_size == 1

\* ------------------------------------------------------------ cell values
\* float NaN, the value pandas gives a missing cell
NaN == "#NaN"

\* the articles a search for kw can list; searches for different keywords
\* list different articles
URLsOf(kw) == IF kw = "Honda" THEN {"u1", "u2"} ELSE {"u3"}

\* the headline a search result shows in the r-th run: the first run sees
\* "A", later runs the reworded "A2"
TitleIn(r) == IF r <= 1 THEN "A" ELSE "A2"

\* strings pd.read_excel turns into NaN (keep_default_na, some of the list)
NaStrings == {"", "N/A", "NA", "null", "nan"}

\* ---------------------------------------------------------- configuration
SHEET_NAMES == <<"Honda", "Toyota">>

Range(s) == {s[i] : i \in 1..Len(s)}

\* NEWS_KEYWORDS as a sequence of symbols: a separator character, a blank,
\* or a run of other characters
EnvValues == { <<>>, <<"Honda", ",", " ">>, <<"Tesla">> }

\* the character class [,\\n] of the raw-string pattern: comma, backslash, n
SplitChars == {",", "\\", "n"}

RECURSIVE re_split(_, _)
\* re.split: the parts between separators, each a sequence of symbols;
\* cur is the part being read
re_split(env, cur) ==
    IF env = <<>> THEN <<cur>>
    ELSE IF Head(env) \in SplitChars
         THEN <<cur>> \o re_split(Tail(env), <<>>)
         ELSE re_split(Tail(env), Append(cur, Head(env)))

RECURSIVE strip(_)
strip(p) ==
    IF p = <<>> THEN p
    ELSE IF Head(p) = " " THEN strip(Tail(p))
    ELSE IF p[Len(p)] = " " THEN strip(SubSeq(p, 1, Len(p) - 1))
    ELSE p

RECURSIVE join(_)
join(p) == IF p = <<>> THEN "" ELSE Head(p) \o join(Tail(p))

RECURSIVE StripParts(_)
\* [p.strip() for p in parts if p.strip()]
StripParts(parts) ==
    IF parts = <<>> THEN <<>>
    ELSE LET s == join(strip(Head(parts)))
         IN  IF s = "" THEN StripParts(Tail(parts))
             ELSE <<s>> \o StripParts(Tail(parts))

get_keywords(env) ==
    IF env # <<>>
    THEN LET parts == StripParts(re_split(env, <<>>))
         IN  IF parts # <<>> THEN parts ELSE SHEET_NAMES
    ELSE SHEET_NAMES

\* ------------------------------------------------------------- DataFrames
EmptyDict == [k \in {} |-> <<>>]

Row(ix, title, url, sent, cat) ==
    [ix |-> ix, title |-> title, url |-> url, sent |-> sent, cat |-> cat]

\* the columns of a row, without its index label
Cols(r) == [title |-> r.title, url |-> r.url, sent |-> r.sent, cat |-> r.cat]

Content(df) == [i \in 1..Len(df) |-> Cols(df[i])]

\* reset_index(drop=True), and the index of ignore_index=True
reset_index(df) == [i \in 1..Len(df) |-> [df[i] EXCEPT !.ix = i - 1]]

concat(a, b) == reset_index(a \o b)

dropna(df) == SelectSeq(df, LAMBDA r : r.url # NaN)

RECURSIVE KeepFirst(_, _)
KeepFirst(df, seen) ==
    IF df = <<>> THEN <<>>
    ELSE IF Head(df).url \in seen THEN KeepFirst(Tail(df), seen)
         ELSE <<Head(df)>> \o KeepFirst(Tail(df), seen \cup {Head(df).url})

\* drop_duplicates left out: every row is kept
drop_duplicates_none(df) == df

RECURSIVE KeepLast(_)
KeepLast(df) ==
    IF df = <<>> THEN <<>>
    ELSE IF \E i \in 2..Len(df) : df[i].url = Head(df).url THEN KeepLast(Tail(df))
         ELSE <<Head(df)>> \o KeepLast(Tail(df))

\* drop_duplicates(keep="last"), the policy of the earlier pipeline
drop_duplicates_last(df) == KeepLast(df)

\* drop_duplicates(subset=["URL"], keep="first"): the index labels stay
drop_duplicates(df) == KeepFirst(df, {})

\* main, step 2: concat, then dropna and drop_duplicates on a non-empty frame
merge(df_o, df_n) ==
    LET all == concat(df_o, df_n)
    IN  IF all # <<>> THEN drop_duplicates(dropna(all)) ELSE all

\* --------------------------------------------------------- the workbook
\* save_book_with_format / openpyxl: an empty string is written as an empty
\* cell, and so is a missing value
WriteCell(v) == IF v = "" \/ v = NaN THEN NaN ELSE v

\* pd.read_excel(dtype=str): an empty cell and a default NA string are NaN
ReadCell(v) == IF v = NaN \/ v \in NaStrings THEN NaN ELSE v

\* one sheet as read back: rows in sheet order under a fresh RangeIndex
ReadSheet(rows) ==
    [i \in 1..Len(rows) |->
        Row(i - 1, ReadCell(WriteCell(rows[i].title)), ReadCell(WriteCell(rows[i].url)),
            ReadCell(WriteCell(rows[i].sent)), ReadCell(WriteCell(rows[i].cat)))]

\* download_existing_book, step 5: the sheets named in SHEET_NAMES, empty
\* frames for the others
ReadBook(book) ==
    [sn \in Range(SHEET_NAMES) |->
        IF sn \in DOMAIN book THEN ReadSheet(book[sn]) ELSE <<>>]

EmptyBook == [sn \in Range(SHEET_NAMES) |-> <<>>]

\* dfs_old.get(kw, empty frame)
dict_get(d, kw) == IF kw \in DOMAIN d THEN d[kw] ELSE <<>>

\* one sheet per entry of dfs, rows in frame order, index not written
WriteBook(dfs) == [sn \in DOMAIN dfs |-> Content(dfs[sn])]

\* ---------------------------------------------------------- classification
\* df[(df[sent] == "") | (df[cat] == "")]
Unlabeled(r) == r.sent = "" \/ r.cat = ""

select_unlabeled(df) == SelectSeq(df, Unlabeled)

HasLabel(df, label) == \E p \in 1..Len(df) : df[p].ix = label

\* df.loc[label, col] = v: sets the cell of the row with that index label,
\* or appends a row with that label and NaN elsewhere when there is none
loc_set_sent(df, label, v) ==
    IF HasLabel(df, label)
    THEN [p \in 1..Len(df) |-> IF df[p].ix = label THEN [df[p] EXCEPT !.sent = v] ELSE df[p]]
    ELSE Append(df, Row(label, NaN, NaN, v, NaN))

loc_set_cat(df, label, v) ==
    IF HasLabel(df, label)
    THEN [p \in 1..Len(df) |-> IF df[p].ix = label THEN [df[p] EXCEPT !.cat = v] ELSE df[p]]
    ELSE Append(df, Row(label, NaN, NaN, NaN, v))

\* df_to_classify.index[idx] of the frame after reset_index: the label at
\* position idx, counted from the end when idx is negative; -1 here stands
\* for the IndexError of a position out of range
NoLabel == 0 - 1
index_at(dtc, idx) ==
    IF idx >= 0 /\ idx < Len(dtc) THEN dtc[idx + 1].ix
    ELSE IF idx < 0 /\ idx >= 0 - Len(dtc) THEN dtc[Len(dtc) + idx + 1].ix
    ELSE NoLabel

\* the body of "for obj in result" for one object
\* (an exception inside it is caught and the next object is taken)
apply_obj(df, dtc, obj) ==
    IF obj.sentiment # "" /\ obj.category # ""
    THEN LET label == index_at(dtc, obj.row)
         IN  IF label = NoLabel THEN df
             ELSE loc_set_cat(loc_set_sent(df, label, obj.sentiment), label, obj.category)
    ELSE df

RECURSIVE apply_result(_, _, _)
apply_result(df, dtc, result) ==
    IF result = <<>> THEN df
    ELSE apply_result(apply_obj(df, dtc, Head(result)), dtc, Tail(result))

\* ------------------------------------------------------------------ inputs
\* what scrape_yahoo can return: up to MaxNew rows with title and URL set and
\* both label columns empty (lines 207-221); the same URL may repeat
RECURSIVE SeqsUpTo(_, _)
SeqsUpTo(S, n) ==
    IF n = 0 THEN {<<>>}
    ELSE LET shorter == SeqsUpTo(S, n - 1)
         IN  shorter \cup {Append(q, x) : q \in {r \in shorter : Len(r) = n - 1}, x \in S}

ScrapedRows(kw, r) == {Row(0, TitleIn(r), u, "", "") : u \in URLsOf(kw)}

ScrapeResults(kw, r) == {reset_index(q) : q \in SeqsUpTo(ScrapedRows(kw, r), MaxNew)}

\* what the service can answer: "pos" and "cat" stand for any ordinary label,
\* "N/A" is the answer of a service that cannot decide
SentimentValues == {"", "pos", "N/A"}
CategoryValues  == {"", "cat"}
RowNumbers      == (0 - 1)..MaxNew

Objects == [row : RowNumbers, sentiment : SentimentValues, category : CategoryValues]

\* ok = FALSE: generate_content raised or json.loads rejected the text
Responses ==
    {[ok |-> FALSE, result |-> <<>>]}
        \cup {[ok |-> TRUE, result |-> q] : q \in SeqsUpTo(Objects, MaxItems)}

\* ------------------------------------------------------------------- state
VARIABLES
    run,              \* invocations of main() started so far
    pc,               \* position of the current run
    failedAt,         \* the function whose exception ended the run, or "none"
    archive,          \* the published workbook: sheet name -> rows as written
    keywords,         \* main: keywords
    gemini,           \* GEMINI_API_KEY is set and the library imported
    loaded,           \* download_existing_book read the workbook in this run
    dfs_old,          \* main: dfs_old
    dfs_merged,       \* main: dfs_merged, the frames classify_with_gemini mutates
    ki,               \* position of "for kw in keywords"
    df_old,           \* main: df_old of the keyword merged last
    df_new,           \* main: df_new of the keyword merged last
    si,               \* position of "for sheet_name, df in dfs.items()"
    df_to_classify,   \* classify_with_gemini: df_to_classify
    start,            \* classify_with_gemini: start
    dfs_entry,        \* history: dfs_merged as classify_with_gemini received it
    sent,             \* history: <<sheet, url>> of the titles put in a payload
    failed            \* history: <<sheet, url>> sent in a batch that failed

vars == <<run, pc, failedAt, archive, keywords, gemini, loaded, dfs_old, dfs_merged,
          ki, df_old, df_new, si, df_to_classify, start, dfs_entry, sent, failed>>

Init ==
    /\ run = 0
    /\ pc = "idle"
    /\ failedAt = "none"
    /\ archive = EmptyDict
    /\ keywords = <<>>
    /\ gemini = FALSE
    /\ loaded = FALSE
    /\ dfs_old = EmptyDict
    /\ dfs_merged = EmptyDict
    /\ ki = 1
    /\ df_old = <<>>
    /\ df_new = <<>>
    /\ si = 1
    /\ df_to_classify = <<>>
    /\ start = 0
    /\ dfs_entry = EmptyDict
    /\ sent = {}
    /\ failed = {}

\* ----------------------------------------------------------------- actions
\* the process ends: everything main held in memory is gone
ProcessExits ==
    /\ keywords' = <<>>
    /\ gemini' = FALSE
    /\ loaded' = FALSE
    /\ dfs_old' = EmptyDict
    /\ dfs_merged' = EmptyDict
    /\ ki' = 1
    /\ df_old' = <<>>
    /\ df_new' = <<>>
    /\ si' = 1
    /\ df_to_classify' = <<>>
    /\ start' = 0
    /\ dfs_entry' = EmptyDict
    /\ sent' = {}
    /\ failed' = {}

\* main starts: a process is launched after the previous one ended
StartRun(env, key) ==
    /\ pc \in {"idle", "crashed"}
    /\ run < MaxRuns
    /\ run' = run + 1
    /\ keywords' = get_keywords(env)
    /\ gemini' = key
    /\ pc' = "download"
    /\ failedAt' = "none"
    /\ UNCHANGED <<archive, loaded, dfs_old, dfs_merged, ki, df_old, df_new, si,
                   df_to_classify, start, dfs_entry, sent, failed>>

\* download_existing_book returns the empty frames: repo or tag unset, a
\* status other than 200, no asset, no download URL, or read_excel failed
DownloadEmpty ==
    /\ pc = "download"
    /\ dfs_old' = EmptyBook
    /\ pc' = "scrape"
    /\ UNCHANGED <<run, failedAt, archive, keywords, gemini, loaded, dfs_merged, ki,
                   df_old, df_new, si, df_to_classify, start, dfs_entry, sent, failed>>

\* download_existing_book reads the published workbook
DownloadBook ==
    /\ pc = "download"
    /\ DOMAIN archive # {}
    /\ dfs_old' = ReadBook(archive)
    /\ loaded' = TRUE
    /\ pc' = "scrape"
    /\ UNCHANGED <<run, failedAt, archive, keywords, gemini, dfs_merged, ki,
                   df_old, df_new, si, df_to_classify, start, dfs_entry, sent, failed>>

\* requests.get raises, or r.json() / rel.get() fail on the release
\* description: nothing catches it, in download_existing_book or in main
DownloadRaises ==
    /\ pc = "download"
    /\ pc' = "crashed"
    /\ failedAt' = "download_existing_book"
    /\ ProcessExits
    /\ UNCHANGED <<run, archive>>

\* one pass of "for kw in keywords": scrape, merge, store
ScrapeAndMerge ==
    /\ pc = "scrape"
    /\ \E scraped \in ScrapeResults(keywords[ki], run) :
        LET kw == keywords[ki]
        IN  /\ df_old' = dict_get(dfs_old, kw)
            /\ df_new' = scraped
            /\ dfs_merged' = (kw :> merge(dict_get(dfs_old, kw), scraped)) @@ dfs_merged
    /\ ki' = ki + 1
    /\ pc' = IF ki = Len(keywords) THEN "classify" ELSE "scrape"
    /\ UNCHANGED <<run, failedAt, archive, keywords, gemini, loaded, dfs_old,
                   si, df_to_classify, start, dfs_entry, sent, failed>>

\* make_driver or driver.get raises inside scrape_yahoo: main does not catch
ScrapeRaises ==
    /\ pc = "scrape"
    /\ pc' = "crashed"
    /\ failedAt' = "scrape_yahoo"
    /\ ProcessExits
    /\ UNCHANGED <<run, archive>>

\* where classify_with_gemini goes after the sheet at position s
AfterSheet(s) == IF s = Len(keywords) THEN "save" ELSE "sheet"

\* classify_with_gemini is entered: it returns at once without key or library
ClassifyEnter ==
    /\ pc = "classify"
    /\ dfs_entry' = dfs_merged
    /\ pc' = IF gemini THEN "sheet" ELSE "save"
    /\ UNCHANGED <<run, failedAt, archive, keywords, gemini, loaded, dfs_old, dfs_merged,
                   ki, df_old, df_new, si, df_to_classify, start, sent, failed>>

\* one pass of "for sheet_name, df in dfs.items()" up to the batch loop
ClassifySheet ==
    /\ pc = "sheet"
    /\ LET dtc == reset_index(select_unlabeled(dfs_merged[keywords[si]]))
       IN  /\ df_to_classify' = dtc
           /\ start' = 0
           /\ IF dtc = <<>>
              THEN /\ si' = si + 1
                   /\ pc' = AfterSheet(si)
              ELSE /\ si' = si
                   /\ pc' = "batch"
    /\ UNCHANGED <<run, failedAt, archive, keywords, gemini, loaded, dfs_old, dfs_merged,
                   ki, df_old, df_new, dfs_entry, sent, failed>>

\* the <<sheet, url>> of the rows of the batch at start
BatchKeys ==
    {<<keywords[si], df_to_classify[p].url>> :
        p \in {q \in 1..Len(df_to_classify) : q > start /\ q <= start + batch_size}}

\* one pass of the batch loop: payload, request, parse, write back
ClassifyBatch(resp) ==
    /\ pc = "batch"
    /\ LET kw == keywords[si]
       IN  dfs_merged' =
               IF resp.ok
               THEN [dfs_merged EXCEPT ![kw] = apply_result(@, df_to_classify, resp.result)]
               ELSE dfs_merged
    /\ sent' = sent \cup BatchKeys
    /\ failed' = IF resp.ok THEN failed ELSE failed \cup BatchKeys
    /\ start' = start + batch_size
    /\ IF start + batch_size >= Len(df_to_classify)
       THEN /\ si' = si + 1
            /\ pc' = AfterSheet(si)
       ELSE /\ si' = si
            /\ pc' = "batch"
    /\ UNCHANGED <<run, failedAt, archive, keywords, gemini, loaded, dfs_old,
                   ki, df_old, df_new, df_to_classify, dfs_entry>>

\* save_book_with_format writes the workbook, which the workflow publishes
SaveBook ==
    /\ pc = "save"
    /\ archive' = WriteBook(dfs_merged)
    /\ pc' = "idle"
    /\ ProcessExits
    /\ UNCHANGED <<run, failedAt>>

\* save_book_with_format raises: no workbook is written
SaveRaises ==
    /\ pc = "save"
    /\ pc' = "crashed"
    /\ failedAt' = "save_book_with_format"
    /\ ProcessExits
    /\ UNCHANGED <<run, archive>>

Next ==
    \/ \E env \in EnvValues, key \in BOOLEAN : StartRun(env, key)
    \/ DownloadEmpty
    \/ DownloadBook
    \/ DownloadRaises
    \/ ScrapeAndMerge
    \/ ScrapeRaises
    \/ ClassifyEnter
    \/ ClassifySheet
    \/ \E resp \in Responses : ClassifyBatch(resp)
    \/ SaveBook
    \/ SaveRaises

Spec == Init /\ [][Next]_vars

\* the row numbers of the payload of the batch at start
PayloadRows ==
    {q - 1 : q \in {p \in 1..Len(df_to_classify) : p > start /\ p <= start + batch_size}}

\* the response names rows of its own payload only, each once
AnswersPayload(resp) ==
    /\ resp.ok
    /\ \A i \in 1..Len(resp.result) : resp.result[i].row \in PayloadRows
    /\ \A i, j \in 1..Len(resp.result) :
           i # j => resp.result[i].row # resp.result[j].row

\* ------------------------------------------- a run over any history
MaxOld == 2          \* rows of the historical sheet

\* rows of a published sheet: the url of a listed article, of an article
\* no search lists any more, or none; both labels or none
WrittenRows ==
    {[title |-> "A", url |-> u, sent |-> l[1], cat |-> l[2]] :
        u \in URLsOf("Honda") \cup {"u0", ""}, l \in {<<"", "">>, <<"pos", "cat">>}}

\* the workbooks a run can find published: any sheet for the first keyword
PublishedBooks == {(SHEET_NAMES[1] :> q) : q \in SeqsUpTo(WrittenRows, MaxOld)}

\* main at "for kw in keywords" in a later run: download_existing_book has
\* read the published workbook
InitHistory ==
    /\ run = MaxRuns
    /\ pc = "scrape"
    /\ failedAt = "none"
    /\ archive \in PublishedBooks
    /\ keywords = SHEET_NAMES
    /\ gemini \in BOOLEAN
    /\ loaded = TRUE
    /\ dfs_old = ReadBook(archive)
    /\ dfs_merged = EmptyDict
    /\ ki = 1
    /\ df_old = <<>>
    /\ df_new = <<>>
    /\ si = 1
    /\ df_to_classify = <<>>
    /\ start = 0
    /\ dfs_entry = EmptyDict
    /\ sent = {}
    /\ failed = {}

\* the service fails, or answers for rows of the payload it was sent
ClassifyBatchAnswered ==
    \E resp \in Responses : (resp.ok => AnswersPayload(resp)) /\ ClassifyBatch(resp)

NextHistory ==
    \/ ScrapeAndMerge
    \/ ScrapeRaises
    \/ ClassifyEnter
    \/ ClassifySheet
    \/ ClassifyBatchAnswered
    \/ SaveBook
    \/ SaveRaises

SpecHistory == InitHistory /\ [][NextHistory]_vars

\* the merge loop of that run on its own
NextMerge == ScrapeAndMerge

SpecMerge == InitHistory /\ [][NextMerge]_vars

\* a keyword has just been merged and nothing has touched the frame since
JustMerged == pc \in {"scrape", "classify"} /\ ki > 1

MergedFrame == dfs_merged[keywords[ki - 1]]

HasUrl(r) == r.url # NaN /\ r.url # ""

\* C3: the merged collection of a keyword holds no two records with the
\* same url, whatever the historical and the newly collected records are.
MergedUrlsUnique ==
    JustMerged =>
        \A i, j \in 1..Len(MergedFrame) :
            i # j => MergedFrame[i].url # MergedFrame[j].url

\* C3 case: a url of the history was collected again, and the merge ran
MergedWithRepeatedUrl ==
    /\ JustMerged
    /\ \E i \in 1..Len(df_old), j \in 1..Len(df_new) :
           HasUrl(df_old[i]) /\ df_old[i].url = df_new[j].url

\* old followed by new, columns only
Concatenation == Content(df_old) \o Content(df_new)

\* the positions of the concatenation that hold the first record of a url
FirstOccurrences ==
    {i \in 1..Len(Concatenation) :
        \A j \in 1..(i - 1) : Concatenation[j].url # Concatenation[i].url}

\* the k-th first occurrence, in the order of the concatenation
KthFirst(k) ==
    CHOOSE i \in FirstOccurrences :
        Cardinality({j \in FirstOccurrences : j <= i}) = k

\* C4: when every record of old and new has a url, the merge result is old
\* followed by new without the records whose url occurred earlier: the first
\* record of each url is kept, in the order of the concatenation.
MergeKeepsFirstInOrder ==
    (JustMerged /\ \A i \in 1..Len(Concatenation) : HasUrl(Concatenation[i])) =>
        /\ Len(MergedFrame) = Cardinality(FirstOccurrences)
        /\ \A k \in 1..Len(MergedFrame) :
               Cols(MergedFrame[k]) = Concatenation[KthFirst(k)]

\* C4 case: a historical record and a re-scraped record share a url and
\* differ in title, another record is new, and the merge ran
MergedHistoricalAndRescraped ==
    /\ JustMerged
    /\ \A i \in 1..Len(Concatenation) : HasUrl(Concatenation[i])
    /\ \E i \in 1..Len(df_old), j \in 1..Len(df_new) :
           df_old[i].url = df_new[j].url /\ df_old[i].title # df_new[j].title
    /\ \E j \in 1..Len(df_new) :
           \A i \in 1..Len(df_old) : df_old[i].url # df_new[j].url

\* --------------------------------------------------- the classification
Populated(v) == v # "" /\ v # NaN

\* the objects of a response that carry both labels
Labelling(resp) ==
    {i \in 1..Len(resp.result) :
        resp.result[i].sentiment # "" /\ resp.result[i].category # ""}

\* the url of the record whose title went out with the row number of object i
SentUrl(resp, i) == df_to_classify[resp.result[i].row + 1].url

\* the frame of the sheet after the batch is the frame before it with the
\* labels of every labelling object on the record sent under its row number
WrittenToSentRecords(resp) ==
    LET before == dfs_merged[keywords[si]]
        after  == dfs_merged'[keywords[si]]
    IN  /\ Len(after) = Len(before)
        /\ \A p \in 1..Len(before) :
               IF \E i \in Labelling(resp) : SentUrl(resp, i) = before[p].url
               THEN \E i \in Labelling(resp) :
                        /\ SentUrl(resp, i) = before[p].url
                        /\ after[p] = [before[p] EXCEPT !.sent = resp.result[i].sentiment,
                                                        !.cat = resp.result[i].category]
               ELSE after[p] = before[p]

\* C1: in classify_with_gemini every response object {row: r, sentiment,
\* category} with both fields non-empty labels exactly the record whose
\* title was sent with row number r, and no other record changes.
LabelsReachTheRecordSent ==
    [][\A resp \in Responses :
           (ClassifyBatch(resp) /\ AnswersPayload(resp)) => WrittenToSentRecords(resp)]_vars

Labeled(r) == Populated(r.sent) /\ Populated(r.cat)

\* C2: the classification phase changes only the two label fields of the
\* records that entered it unlabeled: a record that entered with both labels
\* keeps them, title and url of every record stay, and no record is added,
\* removed or moved.
ClassificationFrame ==
    pc \in {"sheet", "batch", "save"} =>
        \A kw \in DOMAIN dfs_entry :
            /\ Len(dfs_merged[kw]) = Len(dfs_entry[kw])
            /\ \A p \in 1..Len(dfs_entry[kw]) :
                   /\ p <= Len(dfs_merged[kw])
                   /\ dfs_merged[kw][p].title = dfs_entry[kw][p].title
                   /\ dfs_merged[kw][p].url = dfs_entry[kw][p].url
                   /\ Labeled(dfs_entry[kw][p]) => dfs_merged[kw][p] = dfs_entry[kw][p]

\* the rows of a published sheet that hold the first record of a url
HistoricalRecords(sn) ==
    {i \in 1..Len(archive[sn]) :
        /\ HasUrl(archive[sn][i])
        /\ \A j \in 1..(i - 1) : archive[sn][j].url # archive[sn][i].url}

\* C5: a run that fetched the archive hands the Writer every historical
\* record of every sheet of the archive, whatever the keyword list is.
HistoryKept ==
    (pc = "save" /\ loaded) =>
        \A sn \in DOMAIN archive : \A i \in HistoricalRecords(sn) :
            /\ sn \in DOMAIN dfs_merged
            /\ \E p \in 1..Len(dfs_merged[sn]) :
                   /\ dfs_merged[sn][p].url = archive[sn][i].url
                   /\ dfs_merged[sn][p].title = archive[sn][i].title

\* C6: a record the previous run wrote with empty sentiment and category is,
\* in a run that loads the workbook with the service configured, selected
\* for classification and its title is sent in a batch payload.
UnlabeledRetried ==
    (pc = "save" /\ loaded /\ gemini) =>
        \A sn \in DOMAIN archive \cap (Range(keywords) \cap Range(SHEET_NAMES)) :
            \A i \in HistoricalRecords(sn) :
                (archive[sn][i].sent = "" /\ archive[sn][i].cat = "")
                    => <<sn, archive[sn][i].url>> \in sent

\* C7: a failed batch is isolated: at the end of the run every record sent
\* in it has empty sentiment and category, and every record that entered
\* the phase unlabeled was sent, in whatever batch or sheet it is.
FailedBatchIsolated ==
    (pc = "save" /\ gemini) =>
        /\ \A k \in failed : \A p \in 1..Len(dfs_merged[k[1]]) :
               dfs_merged[k[1]][p].url = k[2]
                   => dfs_merged[k[1]][p].sent = "" /\ dfs_merged[k[1]][p].cat = ""
        /\ \A kw \in DOMAIN dfs_entry : \A p \in 1..Len(dfs_entry[kw]) :
               Unlabeled(dfs_entry[kw][p]) => <<kw, dfs_entry[kw][p].url>> \in sent

\* C8: starting from the empty archive, no record handed to the Writer has
\* exactly one of sentiment and category populated.
LabelsPaired ==
    pc = "save" =>
        \A kw \in DOMAIN dfs_merged : \A p \in 1..Len(dfs_merged[kw]) :
            Populated(dfs_merged[kw][p].sent) <=> Populated(dfs_merged[kw][p].cat)

\* C9: download_existing_book never raises to main; when it did not read
\* the workbook it returns an empty collection for every sheet name.
DownloadNeverRaises ==
    /\ failedAt # "download_existing_book"
    /\ (pc = "scrape" /\ ~loaded) => dfs_old = EmptyBook

\* C10: a run ends unsuccessfully only when the Writer fails: a failure of
\* the Extractor, the archive fetch or the classification service is caught
\* and main goes on to save_book_with_format.
OnlyWriterEndsRun ==
    pc = "crashed" => failedAt = "save_book_with_format"

====
